---- MODULE Spec2Model ----
(***************************************************************************)
(* Verification model of the mscthesis geometry pipeline.                  *)
(*                                                                         *)
(* Part 1: voxel synthesis, src/mscthesis/core/synthesis/uniform.py and    *)
(* helpers.py.  Lengths are exact integers in units of 1/Den of the plug   *)
(* height (the code uses float64; the model uses exact arithmetic on that  *)
(* lattice).  numpy's global generator is the pair (seed, draws consumed). *)
(* The invocation ends at the call of uniform.py:82, which raises on every *)
(* input; the lines after it are unreachable and are not modelled.         *)
(***************************************************************************)
EXTENDS Integers, Sequences, FiniteSets, TLC

VARIABLES params, run, twin, sd, tri, cl, gm, wk, cf, bd, fn

vars == <<params, run, twin, sd, tri, cl, gm, wk, cf, bd, fn>>

\* the variables each part of the model leaves alone
notSynthesis == <<sd, tri, cl, gm, wk, cf, bd, fn>>
notSeeding == <<params, run, twin, tri, cl, gm, wk, cf, bd, fn>>
notTriangulation == <<params, run, twin, sd, cl, gm, wk, cf, bd, fn>>
notClassification == <<params, run, twin, sd, tri, gm, wk, cf, bd, fn>>
notMeshing == <<params, run, twin, sd, tri, cl, wk, cf, bd, fn>>
notDistribution == <<params, run, twin, sd, tri, cl, gm, cf, bd, fn>>
notConfiguration == <<params, run, twin, sd, tri, cl, gm, wk, bd, fn>>
notBuilding == <<params, run, twin, sd, tri, cl, gm, wk, cf, fn>>
notCalling == <<params, run, twin, sd, tri, cl, gm, wk, cf, bd>>

(* ------------------------------ bounds --------------------------------- *)
\* lattice units per unit length (the plug height 1.0 is Den units)
Den == 2
\* max_attempts ranges over 0..MaxAttempts
MaxAttempts == 2

\* sample ids have 1..MaxIdLen characters
MaxIdLen == 2

\* a surface mesh has at most MaxFaces triangles
MaxFaces == 3
\* measured areas and volumes range over 0..MaxMeasure
MaxMeasure == 2

\* parameter values enumerated by Init, in lattice units
PlugAspects == {1, 3}
MaxRadii == {1, 2}
MinRadii == {0, 1}
Separations == {0, 1}
Resolutions == {2}
NumCells == {0, 1, 2}

(* ------------------------------ helpers -------------------------------- *)
Abs(a) == IF a < 0 THEN 0 - a ELSE a
Min2(a, b) == IF a <= b THEN a ELSE b
Max2(a, b) == IF a <= b THEN b ELSE a
SetMin(S) == CHOOSE m \in S : \A n \in S : m <= n
SetMax(S) == CHOOSE m \in S : \A n \in S : n <= m

(* --------------------------- float64 tests ----------------------------- *)
\* The tolerance tests of core/meshing/gmeshing.py are float64 expressions
\* of the form abs(x / y - 1) <= t (line 231) and abs((x - y) / y) < t with
\* y = 1.0 (lines 52 and 186).  With x / y = n / d and t = p / q in integers,
\* the quotient and the tolerance are each rounded to 53 significant bits
\* (nearest, ties to even) and the subtraction of 1 is exact for a quotient
\* between 1/2 and 2.  The operators below compute the outcome of the test
\* from the binary expansions, in integers below 2^31.

\* a / b < c / d for a, c >= 0 and b, d > 0, by the Euclidean algorithm
RECURSIVE FracLess(_, _, _, _)
FracLess(a, b, c, d) ==
  IF a \div b # c \div d THEN a \div b < c \div d
  ELSE IF c % d = 0 THEN FALSE
  ELSE IF a % b = 0 THEN TRUE
  ELSE FracLess(d, c % d, b, a % b)

\* (p * 2^k) mod q
RECURSIVE Pow2Mod(_, _, _)
Pow2Mod(p, q, k) == IF k = 0 THEN p % q ELSE (2 * Pow2Mod(p, q, k - 1)) % q

\* bit k >= 1 after the binary point of p / q, for 0 <= p < q
FracBit(p, q, k) == IF 2 * Pow2Mod(p, q, k - 1) >= q THEN 1 ELSE 0

\* rounding p / q to m bits after the binary point goes up: the next bit is
\* set and either more follows or the last kept bit is odd
RoundsUp(p, q, m) ==
  /\ FracBit(p, q, m + 1) = 1
  /\ (Pow2Mod(p, q, m + 1) # 0 \/ FracBit(p, q, m) = 1)

\* the e >= 1 with 2^-e <= p / q < 2^-(e-1), for 0 < p < q
RECURSIVE BinaryExponent(_, _)
BinaryExponent(p, q) == IF 2 * p >= q THEN 1 ELSE 1 + BinaryExponent(2 * p, q)

\* bits a..b after the binary point of p / q, read as a binary number
RECURSIVE FracBits(_, _, _, _)
FracBits(p, q, a, b) ==
  IF a > b THEN 0 ELSE 2 * FracBits(p, q, a, b - 1) + FracBit(p, q, b)

\* the error 1 - float(n) / float(d) is above the tolerance 1 - n / d rounded
\* to 53 bits, or equal to it, or below, for a quotient n / d below 1/2:
\* "above", "equal", "below".  The quotient keeps 53 bits from its leading
\* bit j on, that is j - 1 bits beyond bit 53, and the subtraction rounds
\* those away again (ties to even); the tolerance is rounded once.
SmallQuotientError(n, d) ==
  LET j == BinaryExponent(n, d)
      kept == FracBits(n, d, 54, 52 + j) + (IF RoundsUp(n, d, 52 + j) THEN 1 ELSE 0)
      half == 2 ^ (j - 2)
      quotientUp == kept > half \/ (kept = half /\ FracBit(n, d, 53) = 1)
      exactUp == RoundsUp(n, d, 53)
  IN IF quotientUp = exactUp THEN "equal"
     ELSE IF exactUp THEN "above" ELSE "below"

\* abs(float(n) / float(d) - 1) compared with the float p / q: <= when
\* orequal, < otherwise; n >= 0, d > 0, 0 <= p < q.  Off the boundary the
\* exact values decide (the roundings are below 2^-52, d * q stays far below
\* 2^51); where abs(n - d) / d = p / q the roundings decide.  For a quotient
\* from 1/2 on the subtraction is exact: the error keeps m = 52 bits after
\* the point above 1 and m = 53 below, the tolerance 52 + e.
RelativeErrorWithin(n, d, p, q, orequal) ==
  LET u == Abs(n - d)
  IN IF FracLess(u, d, p, q) THEN TRUE
     ELSE IF FracLess(p, q, u, d) THEN FALSE
     ELSE IF p = 0 THEN orequal
     ELSE IF 2 * n < d
     THEN LET error == SmallQuotientError(n, d)
          IN error = "below" \/ (orequal /\ error = "equal")
     ELSE LET m == IF n > d THEN 52 ELSE 53
              last == 52 + BinaryExponent(p, q)
              between == (m + 1)..last
              errorUp == RoundsUp(p, q, m)
              toleranceUp == RoundsUp(p, q, last)
          IN IF orequal
             THEN \/ ~errorUp
                  \/ /\ toleranceUp
                     /\ \A k \in between : FracBit(p, q, k) = 1
             ELSE /\ ~errorUp
                  /\ \/ toleranceUp
                     \/ \E k \in between : FracBit(p, q, k) = 1

(* ----------------------- sample ids and seeds -------------------------- *)
\* A Python str is modelled as the sequence of the code points of its
\* characters (ord): "01" is <<48, 49>>, "+" is 43, "-" 45, "_" 95.

\* the code points of the zeros of the decimal digits of Unicode (category
\* Nd, Unicode 14.0.0 of Python 3.11); the digits 1 .. 9 of a script follow its
\* zero
DigitZeros ==
  {48, 1632, 1776, 1984, 2406, 2534, 2662, 2790, 2918, 3046, 3174,
   3302, 3430, 3558, 3664, 3792, 3872, 4160, 4240, 6112, 6160, 6470,
   6608, 6784, 6800, 6992, 7088, 7232, 7248, 42528, 43216, 43264,
   43472, 43504, 43600, 44016, 65296, 66720, 68912, 69734, 69872,
   69942, 70096, 70384, 70736, 70864, 71248, 71360, 71472, 71904,
   72016, 72784, 73040, 73120, 92768, 92864, 93008, 120782, 120792,
   120802, 120812, 120822, 123200, 123632, 125264, 130032}

\* the characters int() reads as decimal digits, and the value of one
Digits == UNION {z..(z + 9) : z \in DigitZeros}
DigitVal(c) == c - (CHOOSE z \in DigitZeros : c \in z..(z + 9))

\* the characters str.strip() drops at both ends of a str (str.isspace)
Whitespace ==
  {9, 10, 11, 12, 13, 28, 29, 30, 31, 32, 133, 160, 5760}
    \cup 8192..8202 \cup {8232, 8233, 8239, 8287, 12288}

\* the characters int() drops at both ends of a str: the same without the
\* separators "\x1c" .. "\x1f"
IntWhitespace == Whitespace \ 28..31

RECURSIVE StripLeft(_, _)
StripLeft(s, space) ==
  IF s # <<>> /\ Head(s) \in space THEN StripLeft(Tail(s), space) ELSE s

RECURSIVE StripRight(_, _)
StripRight(s, space) ==
  IF s # <<>> /\ s[Len(s)] \in space
  THEN StripRight(SubSeq(s, 1, Len(s) - 1), space) ELSE s

\* str.strip()
strip(s) == StripRight(StripLeft(s, Whitespace), Whitespace)

\* the text Python's int() parses after dropping surrounding whitespace and
\* one leading sign
IntBody(s) ==
  LET t == StripRight(StripLeft(s, IntWhitespace), IntWhitespace)
  IN IF t # <<>> /\ Head(t) \in {43, 45} THEN Tail(t) ELSE t

IntNegative(s) ==
  LET t == StripRight(StripLeft(s, IntWhitespace), IntWhitespace)
  IN t # <<>> /\ Head(t) = 45

\* int(str) accepts decimal digits, optionally grouped by single underscores
\* placed between digits
IntBodyOK(b) ==
  /\ b # <<>>
  /\ \A k \in 1..Len(b) : b[k] \in Digits \cup {95}
  /\ b[1] \in Digits
  /\ b[Len(b)] \in Digits
  /\ \A k \in 1..(Len(b) - 1) : ~(b[k] = 95 /\ b[k + 1] = 95)

RECURSIVE DecimalValue(_, _)
DecimalValue(b, acc) ==
  IF b = <<>> THEN acc
  ELSE IF Head(b) = 95 THEN DecimalValue(Tail(b), acc)
  ELSE DecimalValue(Tail(b), 10 * acc + DigitVal(Head(b)))

\* int(sample_id): whether it parses, and its value
IntParses(s) == IntBodyOK(IntBody(s))
IntValue(s) ==
  LET v == DecimalValue(IntBody(s), 0)
  IN IF IntNegative(s) THEN 0 - v ELSE v

\* ids.validate_sample_id: TRUE when it returns True, FALSE when it raises
validate_sample_id(sample_id, required_digits) ==
  /\ Len(sample_id) = required_digits
  /\ IntParses(sample_id)

\* helpers.get_sample_seed
get_sample_seed(base_seed, sample_id) ==
  base_seed + 17 * 31 * 53 * IntValue(sample_id)

\* np.random.seed raises ValueError for a seed outside 0 .. 2**32 - 1; the ids
\* and base seeds of the model keep every seed below 2**32, so only the lower
\* limit can fail here
SeedAccepted(seed) == seed >= 0

(* --------------------------- voxel lattice ----------------------------- *)
\* Python's round() of the non-negative fraction n / d (ties to even)
RoundHalfEven(n, d) ==
  LET q == n \div d
      rem == n % d
  IN IF 2 * rem < d THEN q
     ELSE IF 2 * rem > d THEN q + 1
     ELSE IF q % 2 = 0 THEN q ELSE q + 1

\* planar_resolution = round(2 * plug_aspect * axial_resolution)
planar_resolution(plug_aspect, resolution) ==
  RoundHalfEven(2 * plug_aspect * resolution, Den)

\* index set of a grid of shape (planar, planar, axial)
GridIndices(planar, axial) ==
  (0..(planar - 1)) \X (0..(planar - 1)) \X (0..(axial - 1))

\* the grid shape the unpacking at uniform.py:82 names
GridShape(p) ==
  <<planar_resolution(p.plug_aspect, p.resolution),
    planar_resolution(p.plug_aspect, p.resolution),
    p.resolution>>

(* ------------------ generate_voxels_from_sample_id --------------------- *)
\* One invocation is a record: pc is the position in the function body, rng the
\* state <<seed, draws consumed>> of numpy's global generator, seed the sample
\* seed, centers / radii / voxels the cell arrays and the grid (unbound until
\* the lines after uniform.py:82 run), ndraws the number of candidate centers
\* drawn, err the exception that ended the call, meta the metadata returned.
NoMeta ==
  [random_seed |-> 0, num_cells_placed |-> 0, min_radius |-> 0, max_radius |-> 0,
   occupied |-> 0, status |-> "none"]

InitRun(rng0) ==
  [pc |-> "seed", rng |-> rng0, seed |-> 0,
   centers |-> <<>>, radii |-> <<>>, voxels |-> {},
   ndraws |-> 0, err |-> "none", meta |-> NoMeta]

\* variant: the wrapper logs the exception and does not raise it again, the
\* call returns
RaiseSwallowed(r, exc) == [r EXCEPT !.pc = "done", !.err = exc]

\* an exception leaves the function body; log_call logs it and raises it again
\* (log.py:117), so the call ends without a return value
Raise(r, exc) == [r EXCEPT !.pc = "raised", !.err = exc]

\* np.random.seed(seed): the generator restarts at draw 0 of that seed
Reseed(rng, seed) == <<seed, 0>>

\* uniform.py:182 and :80 -- derive the sample seed and seed the generator
SeedStep(r, p) ==
  IF ~IntParses(p.sample_id) THEN Raise(r, "ValueError")
  ELSE LET seed == get_sample_seed(p.base_seed, p.sample_id)
       IN IF ~SeedAccepted(seed) THEN Raise([r EXCEPT !.seed = seed], "ValueError")
          ELSE [r EXCEPT !.pc = "grid", !.seed = seed, !.rng = Reseed(r.rng, seed)]

\* helpers.py:40-44 declares three positional parameters, uniform.py:82 passes
\* two arguments
MeshgridParameters == 3
MeshgridArguments == 2

\* uniform.py:82 against helpers.initialize_meshgrid as defined: the call
\* raises TypeError (missing positional argument) before the body runs.  The
\* lines after it (84-145: cell arrays, feasibility test, placement loop,
\* rasterization, metadata) are therefore never executed and have no steps
\* here.
InitializeMeshgridCall(r, p) ==
  IF MeshgridArguments # MeshgridParameters THEN Raise(r, "TypeError")
  ELSE [r EXCEPT !.pc = "bounds", !.voxels = {}]

\* one step of an invocation
StepWith(r, p) ==
  CASE r.pc = "seed" -> SeedStep(r, p)
    [] r.pc = "grid" -> InitializeMeshgridCall(r, p)
    [] OTHER -> r

Final == {"done", "raised"}

(* --------------------------- specifications ---------------------------- *)
\* the sample ids "01" and "-1"
SampleIds == {<<48, 49>>, <<45, 49>>}
BaseSeeds == {5}
\* generator states left behind by whatever ran before the invocation
PriorRng == {<<0, 0>>, <<0, 3>>}

Params ==
  [sample_id : SampleIds, base_seed : BaseSeeds, resolution : Resolutions,
   plug_aspect : PlugAspects, num_cells : NumCells,
   min_radius : MinRadii, max_radius : MaxRadii,
   min_separation : Separations, max_attempts : 0..MaxAttempts]

Idle == [InitRun(<<0, 0>>) EXCEPT !.pc = "idle"]

IdleParams == CHOOSE p \in Params : TRUE
IdleSd ==
  [pc |-> "idle", base_seed |-> 0, required_digits |-> 0, ids |-> <<<<>>, <<>>>>,
   valid |-> <<FALSE, FALSE>>, seeds |-> <<0, 0>>]
IdleCl == [pc |-> "idle"]
IdleGm == [pc |-> "idle"]
IdleWk == [pc |-> "idle"]
IdleCf == [pc |-> "idle"]
IdleBd == [pc |-> "idle"]
IdleFn == [pc |-> "idle"]
IdleRest ==
  /\ cl = IdleCl /\ gm = IdleGm /\ wk = IdleWk /\ cf = IdleCf
  /\ bd = IdleBd /\ fn = IdleFn

IdleTri ==
  [pc |-> "idle", input_present |-> FALSE, voxels |-> {}, decimation_target |-> 0,
   shrinkage_tolerance |-> 0, faces |-> 0, verts |-> 0,
   pre_area |-> 0, pre_volume |-> 0, post_area |-> 0, post_volume |-> 0,
   flags |-> <<FALSE, FALSE, FALSE>>, returned |-> FALSE, metadata |-> <<>>,
   stl_written |-> FALSE, tool_invoked |-> FALSE, manifest |-> <<>>,
   calls |-> <<>>, err |-> "none"]

\* one invocation of generate_voxels_from_sample_id
Init ==
  /\ params \in Params
  /\ run \in {InitRun(g) : g \in PriorRng}
  /\ twin = Idle
  /\ sd = IdleSd
  /\ tri = IdleTri
  /\ IdleRest

Seed ==
  /\ run.pc = "seed"
  /\ run' = SeedStep(run, params)
  /\ UNCHANGED <<params, twin, notSynthesis>>

\* the call at uniform.py:82 executed against the helper under src/
MeshgridCall ==
  /\ run.pc = "grid"
  /\ run' = InitializeMeshgridCall(run, params)
  /\ UNCHANGED <<params, twin, notSynthesis>>

NextCall == Seed \/ MeshgridCall

SpecCall == Init /\ [][NextCall]_vars

\* two invocations with the same base_seed, sample_id and parameters, stepped
\* together
InitTwin ==
  /\ params \in Params
  /\ run \in {InitRun(g) : g \in PriorRng}
  /\ twin \in {InitRun(g) : g \in PriorRng}
  /\ sd = IdleSd
  /\ tri = IdleTri
  /\ IdleRest

TwinStep ==
  /\ ~(run.pc \in Final /\ twin.pc \in Final)
  /\ run' = StepWith(run, params)
  /\ twin' = StepWith(twin, params)
  /\ UNCHANGED <<params, notSynthesis>>

NextTwin == TwinStep

SpecTwin == InitTwin /\ [][NextTwin]_vars

(* ------------------- sample ids through the seed map ------------------- *)
\* characters the model's sample ids are written in: "0", "1", "9", "+",
\* "-", "_", a tab, "a", the separator "\x1c" (dropped by str.strip(), not by
\* int()) and the Arabic-Indic digit one
Chars == {48, 49, 57, 43, 45, 95, 9, 97, 28, 1633}

IdStrings == UNION {[1..n -> Chars] : n \in 1..MaxIdLen}

\* two sample ids are validated for the same width and, if both pass, mapped
\* to their seeds
InitSeed ==
  /\ sd \in [pc : {"start"}, base_seed : BaseSeeds, required_digits : 1..MaxIdLen,
              ids : IdStrings \X IdStrings,
              valid : {<<FALSE, FALSE>>}, seeds : {<<0, 0>>}]
  /\ params = IdleParams
  /\ run = Idle
  /\ twin = Idle
  /\ tri = IdleTri
  /\ IdleRest

\* ids.validate_sample_id on both ids; an id that fails raises ValueError
ValidateIds ==
  /\ sd.pc = "start"
  /\ LET v == <<validate_sample_id(sd.ids[1], sd.required_digits),
                 validate_sample_id(sd.ids[2], sd.required_digits)>>
     IN sd' = [sd EXCEPT !.valid = v,
                         !.pc = IF v[1] /\ v[2] THEN "validated" ELSE "rejected"]
  /\ UNCHANGED notSeeding

\* helpers.get_sample_seed on both ids
DeriveSeeds ==
  /\ sd.pc = "validated"
  /\ sd' = [sd EXCEPT !.seeds = <<get_sample_seed(sd.base_seed, sd.ids[1]),
                                   get_sample_seed(sd.base_seed, sd.ids[2])>>,
                       !.pc = "seeded"]
  /\ UNCHANGED notSeeding

NextSeed == ValidateIds \/ DeriveSeeds

SpecSeed == InitSeed /\ [][NextSeed]_vars

(* ------------------------- surface extraction -------------------------- *)
\* Part 2: core/meshing/triangulation.py and cli/commands/triangulate.py.
\* The mesh is known to the model by its triangle and vertex counts; what
\* skimage and open3d compute from it (counts after a pass, areas, volumes,
\* manifold and watertight tests) is a nondeterministic choice among the
\* values the call can return.  Areas and volumes are integers, the shrinkage
\* tolerance is in percent.
TriGrid == {1, 2}
Tolerances == {0, 50}
DecimationTargets == {1, 3}

\* vertex counts a cleaned mesh of n triangles can have (unreferenced
\* vertices are removed by _clean_mesh)
VertsOf(n) == IF n = 0 THEN {0} ELSE 3..Min2(3 * n, MaxFaces + 1)

\* triangulation.py:99-101 -- marching_cubes at level 0.5 needs a voxel below
\* and a voxel above the level; skimage raises ValueError otherwise
LevelInRange(voxels) == voxels # {} /\ voxels # TriGrid

TriFail(t, exc) == [t EXCEPT !.pc = "raised", !.err = exc]

\* the calls triangulate_voxels makes on the mesh, in the order of the code;
\* "clean" is _clean_mesh, "measure" is get_surface_area with get_volume
ExtractionCalls == <<"cubes", "clean">>

\* variant: the smoothed mesh is not cleaned
SmoothingCallsUncleaned == <<"smooth">>

\* triangulation.py:111-113
SmoothingCalls == <<"smooth", "clean">>

\* triangulation.py:119-122
DecimationCalls == <<"decimate", "clean">>

\* triangulation.py:12-29 -- _clean_mesh removes triangles and vertices, it
\* adds none
CleanedCounts(n) == 0..n

\* triangulation.py:59-63 -- abs(pre - post) / pre <= shrinkage_tolerance,
\* for pre > 0
WithinTolerance(pre, post, tolerance) == 100 * Abs(pre - post) <= tolerance * pre

\* variant: status also requires acceptable shrinkage
TriangulationStatusGated(t, flags) ==
  IF flags[1] /\ flags[2] /\ flags[3]
       /\ WithinTolerance(t.pre_area, t.post_area, t.shrinkage_tolerance)
       /\ WithinTolerance(t.pre_volume, t.post_volume, t.shrinkage_tolerance)
  THEN "success" ELSE "failure"

\* triangulation.py:129-137 -- status from is_edge_manifold,
\* is_vertex_manifold, is_watertight
TriangulationStatus(t, flags) ==
  IF flags[1] /\ flags[2] /\ flags[3] THEN "success" ELSE "failure"

\* triangulation.py:59-60 -- the divisions raise ZeroDivisionError
MetadataDivides(t) == t.pre_area # 0 /\ t.pre_volume # 0

\* triangulation.py:32-76 -- _metadata; a shrinkage ratio is kept as the pair
\* <<numerator, denominator>>
TriMetadata(t, status) ==
  [num_vertices |-> t.verts,
   num_faces |-> t.faces,
   pre_area |-> t.pre_area,
   post_area |-> t.post_area,
   area_shrinkage |-> <<Abs(t.pre_area - t.post_area), t.pre_area>>,
   pre_volume |-> t.pre_volume,
   post_volume |-> t.post_volume,
   volume_shrinkage |-> <<Abs(t.pre_volume - t.post_volume), t.pre_volume>>,
   shrinkage_acceptable |->
     (WithinTolerance(t.pre_area, t.post_area, t.shrinkage_tolerance)
        /\ WithinTolerance(t.pre_volume, t.post_volume, t.shrinkage_tolerance)),
   status |-> status]

\* one sample through _execute_single_sample_id of the triangulate command
InitTri ==
  /\ tri \in {[IdleTri EXCEPT !.pc = "require", !.input_present = present,
                              !.voxels = v, !.decimation_target = target,
                              !.shrinkage_tolerance = tol] :
               present \in BOOLEAN, v \in SUBSET TriGrid,
               target \in DecimationTargets, tol \in Tolerances}
  /\ params = IdleParams
  /\ run = Idle
  /\ twin = Idle
  /\ sd = IdleSd
  /\ IdleRest

\* triangulate.py:29-30 -- require_voxels, load_voxels
RequireVoxels ==
  /\ tri.pc = "require"
  /\ tri' = IF tri.input_present THEN [tri EXCEPT !.pc = "cubes"]
            ELSE TriFail(tri, "FileNotFoundError")
  /\ UNCHANGED notTriangulation

\* triangulation.py:98-105 -- marching cubes, mesh, first cleaning.  For a
\* grid with no voxel on one side of the level the call raises; a marching
\* cubes that returns no triangle instead is the other outcome kept here.
MarchingCubes ==
  /\ tri.pc = "cubes"
  /\ \/ /\ ~LevelInRange(tri.voxels)
        /\ \/ tri' = TriFail(tri, "ValueError")
           \/ tri' = [tri EXCEPT !.pc = "measure_pre", !.faces = 0, !.verts = 0,
                         !.calls = @ \o ExtractionCalls]
     \/ /\ LevelInRange(tri.voxels)
        /\ \E n \in 1..MaxFaces : \E m \in CleanedCounts(n) : \E v \in VertsOf(m) :
             tri' = [tri EXCEPT !.pc = "measure_pre", !.faces = m, !.verts = v,
                       !.calls = @ \o ExtractionCalls]
  /\ UNCHANGED notTriangulation

\* areas and volumes a mesh of n triangles can measure
AreasOf(n) == IF n = 0 THEN {0} ELSE 1..MaxMeasure
VolumesOf(n) == IF n = 0 THEN {0} ELSE 0..MaxMeasure

\* triangulation.py:107-109 -- baseline area and volume; open3d's get_volume
\* raises RuntimeError for a mesh it does not find watertight
MeasurePre ==
  /\ tri.pc = "measure_pre"
  /\ \/ \E a \in AreasOf(tri.faces), v \in VolumesOf(tri.faces) :
          tri' = [tri EXCEPT !.pc = "smooth", !.pre_area = a, !.pre_volume = v,
                    !.calls = Append(@, "measure")]
     \/ tri' = TriFail(tri, "RuntimeError")
  /\ UNCHANGED notTriangulation

\* triangulation.py:111-113 -- Taubin smoothing keeps the triangles, the
\* cleaning that follows can remove some
Smooth ==
  /\ tri.pc = "smooth"
  /\ \E m \in CleanedCounts(tri.faces) : \E v \in VertsOf(m) :
       tri' = [tri EXCEPT !.pc = "decimate", !.faces = m, !.verts = v,
                 !.calls = @ \o SmoothingCalls]
  /\ UNCHANGED notTriangulation

\* variant: the guard written with <= instead of <
DecimationRunsNonStrict(t) == t.decimation_target <= t.faces

\* triangulation.py:118 -- the decimation guard
DecimationRuns(t) == t.decimation_target < t.faces

\* triangulation.py:115-122 -- decimation toward the target, then cleaning
Decimate ==
  /\ tri.pc = "decimate"
  /\ IF DecimationRuns(tri)
     THEN \E n \in tri.decimation_target..tri.faces :
            \E m \in CleanedCounts(n) : \E v \in VertsOf(m) :
              tri' = [tri EXCEPT !.pc = "measure_post", !.faces = m, !.verts = v,
                        !.calls = @ \o DecimationCalls]
     ELSE tri' = [tri EXCEPT !.pc = "measure_post"]
  /\ UNCHANGED notTriangulation

\* triangulation.py:124-126 -- post-processing area and volume
MeasurePost ==
  /\ tri.pc = "measure_post"
  /\ \/ \E a \in AreasOf(tri.faces), v \in VolumesOf(tri.faces) :
          tri' = [tri EXCEPT !.pc = "validate", !.post_area = a, !.post_volume = v,
                    !.calls = Append(@, "measure")]
     \/ tri' = TriFail(tri, "RuntimeError")
  /\ UNCHANGED notTriangulation

\* triangulation.py:128-149 -- manifold and watertight tests, status,
\* _metadata, return
Validate ==
  /\ tri.pc = "validate"
  /\ \E flags \in BOOLEAN \X BOOLEAN \X BOOLEAN :
       tri' = IF MetadataDivides(tri)
              THEN [tri EXCEPT !.pc = "save", !.flags = flags, !.returned = TRUE,
                      !.metadata = TriMetadata(tri, TriangulationStatus(tri, flags))]
              ELSE TriFail([tri EXCEPT !.flags = flags], "ZeroDivisionError")
  /\ UNCHANGED notTriangulation

\* io.py:64 -- open3d's write_triangle_mesh writes nothing for a mesh without
\* triangles and returns False
MeshWritten(t) == t.faces > 0

\* triangulate.py:40-45 -- output directory, surface mesh file; io.py:64-66
\* raises IOError (OSError) when the writer reports no file
SaveSurfaceMesh ==
  /\ tri.pc = "save"
  /\ tri' = IF MeshWritten(tri)
            THEN [tri EXCEPT !.pc = "gate", !.stl_written = TRUE]
            ELSE TriFail(tri, "OSError")
  /\ UNCHANGED notTriangulation

\* the key triangulate.py:47 reads from the metadata dictionary
GateKey == "success"

\* exit codes of the external CAD tool
ToolExitCodes == {0, 1}

\* triangulate.py:47-86 -- conversion gate, manifest, return.  Reading a key
\* the dictionary does not hold raises KeyError.
GateAndDocument ==
  /\ tri.pc = "gate"
  /\ IF GateKey \notin DOMAIN tri.metadata
     THEN tri' = TriFail(tri, "KeyError")
     ELSE IF tri.metadata[GateKey] = TRUE
     THEN \E code \in ToolExitCodes :
            tri' = IF code # 0
                   THEN TriFail([tri EXCEPT !.tool_invoked = TRUE], "RuntimeError")
                   ELSE [tri EXCEPT !.pc = "done", !.tool_invoked = TRUE,
                           !.manifest = [meta |-> [brep_exported |-> TRUE]]]
     ELSE tri' = [tri EXCEPT !.pc = "done",
                    !.manifest = [meta |-> [brep_exported |-> FALSE]]]
  /\ UNCHANGED notTriangulation

NextTri ==
  \/ RequireVoxels \/ MarchingCubes \/ MeasurePre \/ Smooth \/ Decimate
  \/ MeasurePost \/ Validate \/ SaveSurfaceMesh \/ GateAndDocument

SpecTri == InitTri /\ [][NextTri]_vars

(* ----------------------- surface classification ----------------------- *)
\* Part 3: core/meshing/gmeshing.py, assign_physical_groups.  A surface of the
\* scene is known by its tag (its position in getEntities(dim=2)), by what
\* np.isclose says of the z coordinate of its center of mass ("one": close to
\* 1.0, "zero": close to 0.0, "other") and by its area, an integer; the
\* tolerance is in percent.  curved_area_target, which lines 216-222 compute
\* from the bounding box of the airspace, is a value of the scene like the
\* areas.  The areas are one tenth below and one tenth above the target.
MaxSurfaces == 4
SurfaceHeights == {"one", "zero", "other"}
SurfaceAreas == {9, 11}
CurvedAreaTargets == {10}
ClassifyTolerances == {10}
SurfaceKinds == [z : SurfaceHeights, area : SurfaceAreas]

\* gmeshing.py:229-231 -- abs(area / curved_area_target - 1) <= tolerance,
\* in float64
AreaWithinTolerance(area, target, tolerance) ==
  RelativeErrorWithin(area, target, tolerance, 100, TRUE)

NoTag == 0

\* gmeshing.py:216-243 -- the state of assign_physical_groups at the head of
\* its loop: target area, empty results, and the physical group "airspace"
\* (dimension 3) holding the tags of the handle
StartClassify(airspace, surfaces, target, tolerance) ==
  [pc |-> "loop", surfaces |-> surfaces, curved_area_target |-> target,
   tolerance |-> tolerance, k |-> 1,
   groups |-> [airspace |-> {airspace[j] : j \in 1..Len(airspace)},
               top_surface |-> {}, bottom_surface |-> {}, curved_surface |-> {},
               mesophyll_surfaces |-> {}],
   mesophyll_surface_tags |-> <<>>, curved_area_found |-> <<>>,
   top_area_tag |-> NoTag, bottom_area_tag |-> NoTag, curved_area_tag |-> NoTag,
   tags |-> <<>>, err |-> "none"]

\* assign_physical_groups called on a fresh model with the handle of the one
\* volume of the scene
InitClassify ==
  /\ cl \in {StartClassify(<<1>>, surfaces, target, tolerance) :
               surfaces \in UNION {[1..n -> SurfaceKinds] : n \in 0..MaxSurfaces},
               target \in CurvedAreaTargets, tolerance \in ClassifyTolerances}
  /\ params = IdleParams /\ run = Idle /\ twin = Idle /\ sd = IdleSd
  /\ tri = IdleTri /\ gm = IdleGm /\ wk = IdleWk /\ cf = IdleCf
  /\ bd = IdleBd /\ fn = IdleFn

\* the loop branch a surface takes, gmeshing.py:246-260
SurfaceBranch(c, surface) ==
  IF surface.z = "one" THEN "top_surface"
  ELSE IF surface.z = "zero" THEN "bottom_surface"
  ELSE IF AreaWithinTolerance(surface.area, c.curved_area_target, c.tolerance)
       THEN "curved_surface"
  ELSE "mesophyll_surfaces"

\* gmsh.model.addPhysicalGroup(2, [tag], group) with the fixed physical tag
\* of the group (2, 3 or 4): a physical tag that is already in use is an error
\* of the kernel ("Physical surface ... already exists"), which the Python
\* binding raises as an Exception; the function does not catch it
AddPhysicalGroup(c, group, tag) ==
  IF c.groups[group] # {}
  THEN [c EXCEPT !.pc = "raised", !.err = "Exception"]
  ELSE [c EXCEPT !.groups[group] = @ \cup {tag}]

\* gmeshing.py:244-260 -- one iteration of the loop over the surfaces
ClassifySurfaceStep(c) ==
  LET tag == c.k
      surface == c.surfaces[tag]
      branch == SurfaceBranch(c, surface)
      \* _iscurved appends the area before the group is added
      seen == IF branch = "curved_surface"
              THEN [c EXCEPT !.curved_area_found = Append(@, surface.area)]
              ELSE c
      added == IF branch = "mesophyll_surfaces"
               THEN [seen EXCEPT !.mesophyll_surface_tags = Append(@, tag)]
               ELSE AddPhysicalGroup(seen, branch, tag)
  IN IF added.pc = "raised" THEN added
     ELSE [added EXCEPT
             !.top_area_tag = IF branch = "top_surface" THEN tag ELSE @,
             !.bottom_area_tag = IF branch = "bottom_surface" THEN tag ELSE @,
             !.curved_area_tag = IF branch = "curved_surface" THEN tag ELSE @,
             !.k = @ + 1,
             !.pc = IF c.k = Len(c.surfaces) THEN "finish" ELSE "loop"]

ClassifySurface ==
  /\ cl.pc = "loop"
  /\ IF Len(cl.surfaces) = 0
     THEN cl' = [cl EXCEPT !.pc = "finish"]
     ELSE cl' = ClassifySurfaceStep(cl)
  /\ UNCHANGED notClassification

\* variant: the assertion accepts a scene without a curved face
CurvedFoundAtMostOnce(found) == Len(found) <= 1

\* gmeshing.py:263-265 -- assert len(curved_area_found) == 1
CurvedFoundOnce(found) == Len(found) = 1

\* variant: one cap is enough
CapsFoundEither(c) == c.top_area_tag # NoTag \/ c.bottom_area_tag # NoTag

\* gmeshing.py:267-269 -- assert both cap tags are set
CapsFound(c) == c.top_area_tag # NoTag /\ c.bottom_area_tag # NoTag

\* gmeshing.py:261-278 -- mesophyll group, assertions, the returned dictionary
FinishClassifyStep(c) ==
  LET grouped == [c EXCEPT !.groups.mesophyll_surfaces =
                             {c.mesophyll_surface_tags[j] :
                                j \in 1..Len(c.mesophyll_surface_tags)}]
  IN IF ~CurvedFoundOnce(c.curved_area_found) \/ ~CapsFound(c)
     THEN [grouped EXCEPT !.pc = "raised", !.err = "AssertionError"]
     ELSE [grouped EXCEPT !.pc = "returned",
             !.tags = [mesophyll_surface_tags |-> c.mesophyll_surface_tags,
                       curved_area_tag |-> c.curved_area_tag,
                       top_area_tag |-> c.top_area_tag,
                       bottom_area_tag |-> c.bottom_area_tag]]

FinishClassify ==
  /\ cl.pc = "finish"
  /\ cl' = FinishClassifyStep(cl)
  /\ UNCHANGED notClassification

NextClassify == ClassifySurface \/ FinishClassify

SpecClassify == InitClassify /\ [][NextClassify]_vars

(* ---------------------------- mesh command ---------------------------- *)
\* Part 4: cli/commands/mesh.py and run_gmsh_session of gmeshing.py, for the
\* samples one worker handles in sequence (the loop of shared.py:190-191).
\* The kernel is the process-wide gmsh state: whether gmsh.initialize has run
\* without a gmsh.finalize since, and the samples whose model (entities,
\* physical groups, sizing fields) it holds.
MaxSamples == 2
InputKinds == {"file", "absent", "directory"}

\* the kernel calls of run_gmsh_session between initialization and write, in
\* order: importShapes (356-357), build_gmsh_model's cut (130), removal of the
\* smaller volumes (144-150), normalization (188-195), assign_physical_groups
\* (366), configure_meshfield (368-375), mesh.generate(3) (377)
KernelStages ==
  <<"import", "cut", "remove", "normalize", "classify", "fields", "generate">>

StageAfter(stage) ==
  IF stage = "generate" THEN "write"
  ELSE KernelStages[(CHOOSE j \in 1..Len(KernelStages) : KernelStages[j] = stage) + 1]

InitMesh ==
  /\ gm \in {[pc |-> "require", n |-> n, s |-> 1, input |-> input,
              no_manifest |-> quiet, no_cmdconfig |-> bare, dirs |-> {},
              kernel |-> [initialized |-> FALSE, models |-> {}],
              kernel_calls |-> {}, written |-> {}, configs |-> {},
              manifests |-> {}, raised_at |-> "none", err |-> "none"] :
             n \in 1..MaxSamples, input \in [1..MaxSamples -> InputKinds],
             quiet \in BOOLEAN, bare \in BOOLEAN}
  /\ params = IdleParams /\ run = Idle /\ twin = Idle /\ sd = IdleSd
  /\ tri = IdleTri /\ cl = IdleCl /\ wk = IdleWk /\ cf = IdleCf
  /\ bd = IdleBd /\ fn = IdleFn

\* variant: the input is taken as it is
InputUsableUnchecked(kind) == TRUE

\* paths.py:54-66 and 332-335 -- require_file: the path exists and is a file
\* (the extension of surface_mesh.brep is fixed by the path itself)
InputUsable(kind) == kind = "file"

\* mesh.py:28 -- require_brep
RequireBrep ==
  /\ gm.pc = "require"
  /\ gm' = IF InputUsable(gm.input[gm.s]) THEN [gm EXCEPT !.pc = "ensure"]
           ELSE [gm EXCEPT !.pc = "raised",
                   !.err = IF gm.input[gm.s] = "absent" THEN "FileNotFoundError"
                           ELSE "IsADirectoryError"]
  /\ UNCHANGED notMeshing

\* mesh.py:30-32 -- the output directory of the stage
EnsureMeshDir ==
  /\ gm.pc = "ensure"
  /\ gm' = [gm EXCEPT !.pc = "initialize", !.dirs = @ \cup {gm.s}]
  /\ UNCHANGED notMeshing

\* gmeshing.py:353-355 -- gmsh.initialize, options, model.add; nothing before
\* it ends the session of the previous sample
InitializeKernel ==
  /\ gm.pc = "initialize"
  /\ gm' = [gm EXCEPT !.pc = "import",
              !.kernel = [initialized |-> TRUE, models |-> @.models \cup {gm.s}],
              !.kernel_calls = @ \cup {gm.s}]
  /\ UNCHANGED notMeshing

\* variant: the error of a kernel call is dropped and the session goes on
KernelFailureSwallowed(g, stage) ==
  [g EXCEPT !.pc = StageAfter(stage), !.raised_at = stage, !.err = "Exception"]

\* an exception of a kernel call leaves run_gmsh_session, the command
\* function and the worker's loop: none of them catches
KernelFailure(g, stage) ==
  [g EXCEPT !.pc = "raised", !.raised_at = stage, !.err = "Exception"]

\* gmeshing.py:356-377 -- one kernel call of the session: it returns or raises
KernelStage ==
  /\ \E j \in 1..Len(KernelStages) : gm.pc = KernelStages[j]
  /\ \/ gm' = [gm EXCEPT !.pc = StageAfter(gm.pc)]
     \/ gm' = KernelFailure(gm, gm.pc)
  /\ UNCHANGED notMeshing

\* gmeshing.py:378-380 -- gmsh.write, return of the (empty) metadata
WriteMesh ==
  /\ gm.pc = "write"
  /\ gm' = [gm EXCEPT !.pc = "document", !.written = @ \cup {gm.s}]
  /\ UNCHANGED notMeshing

\* mesh.py:47-58, shared.py:264-279, manifest.py:35-56 -- unless switched
\* off, the command config is written to <stage dir>/config.json; unless
\* switched off, dump_manifest is handed the path
\* <stage dir>/manifest.json as its target directory and opens
\* <stage dir>/manifest.json/manifest.json, whose parent does not exist.
\* Then the loop of shared.py:190-191 goes to the next sample.
DocumentMesh ==
  /\ gm.pc = "document"
  /\ gm' = IF ~gm.no_manifest
           THEN [gm EXCEPT !.pc = "raised", !.err = "FileNotFoundError",
                   !.configs = IF gm.no_cmdconfig THEN @ ELSE @ \cup {gm.s}]
           ELSE [gm EXCEPT !.configs = IF gm.no_cmdconfig THEN @ ELSE @ \cup {gm.s},
                   !.s = IF gm.s < gm.n THEN gm.s + 1 ELSE gm.s,
                   !.pc = IF gm.s < gm.n THEN "require" ELSE "done"]
  /\ UNCHANGED notMeshing

NextMesh ==
  \/ RequireBrep \/ EnsureMeshDir \/ InitializeKernel \/ KernelStage
  \/ WriteMesh \/ DocumentMesh

SpecMesh == InitMesh /\ [][NextMesh]_vars

\* either command on its own input
InitStages == InitTri \/ InitMesh
NextStages == NextTri \/ NextMesh
SpecStages == InitStages /\ [][NextStages]_vars

(* ------------------------- worker distribution ------------------------- *)
\* Part 5: distribute_command_execution and interpret_sample_input of
\* cli/shared.py.  Every worker of the communicator runs the same function on
\* the same arguments; ranks and list positions count from 0 as in the code.
\* The storage root exists in these runs (require_base passes).
MaxWorkers == 2
MaxLines == 3

\* pieces of text an inventory file is written from, one after the other:
\* "01\n", "10" (no line end), "10\r" (a line ended the old Mac way),
\* "\x1c01\u2000\r\n" (an id with whitespace around it), " \n" (a blank
\* line), "a1\n" (no integer)
FileParts ==
  {<<48, 49, 10>>, <<49, 48>>, <<49, 48, 13>>, <<28, 48, 49, 8192, 13, 10>>,
   <<32, 10>>, <<97, 49, 10>>}

RECURSIVE Concat(_)
Concat(parts) == IF parts = <<>> THEN <<>> ELSE Head(parts) \o Concat(Tail(parts))

\* the text of an inventory file
FileTexts == {Concat(parts) : parts \in UNION {[1..n -> FileParts] : n \in 0..MaxLines}}

\* the sample input: the text of the file the argument names (an argument
\* that starts with "@" or ends with ".txt"; the file exists), or the
\* argument itself
SampleInputs ==
  [file : {TRUE}, text : FileTexts] \cup [file : {FALSE}, text : FileParts]

\* open(path, "r"): text mode translates "\r\n" and a lone "\r" to "\n"
RECURSIVE UniversalNewlines(_)
UniversalNewlines(s) ==
  IF s = <<>> THEN <<>>
  ELSE IF Head(s) # 13 THEN <<Head(s)>> \o UniversalNewlines(Tail(s))
  ELSE IF Len(s) > 1 /\ s[2] = 10 THEN <<10>> \o UniversalNewlines(Tail(Tail(s)))
  ELSE <<10>> \o UniversalNewlines(Tail(s))

\* for line in f: the lines of the text, each up to and with its "\n"; the
\* last one is without when the text does not end in "\n"
RECURSIVE ReadLines(_, _)
ReadLines(s, line) ==
  IF s = <<>> THEN (IF line = <<>> THEN <<>> ELSE <<line>>)
  ELSE IF Head(s) = 10 THEN <<Append(line, 10)>> \o ReadLines(Tail(s), <<>>)
  ELSE ReadLines(Tail(s), Append(line, Head(s)))

\* shared.py:213-217 -- the loop over the lines of the file: a blank line is
\* skipped, a line that validate_sample_id rejects raises its ValueError
RECURSIVE InterpretLines(_, _, _)
InterpretLines(lines, required_digits, sample_ids) ==
  IF lines = <<>> THEN [err |-> "none", sample_ids |-> sample_ids]
  ELSE LET sample_id == strip(Head(lines))
       IN IF sample_id = <<>>
          THEN InterpretLines(Tail(lines), required_digits, sample_ids)
          ELSE IF validate_sample_id(sample_id, required_digits)
          THEN InterpretLines(Tail(lines), required_digits,
                              Append(sample_ids, sample_id))
          ELSE [err |-> "ValueError", sample_ids |-> sample_ids]

\* shared.py:196-224 -- interpret_sample_input: the list of ids, or the
\* ValueError of validate_sample_id.  A single id is validated as it is
\* after strip.
interpret_sample_input(input, required_digits) ==
  IF input.file
  THEN InterpretLines(ReadLines(UniversalNewlines(input.text), <<>>),
                      required_digits, <<>>)
  ELSE LET sample_id == strip(input.text)
       IN IF validate_sample_id(sample_id, required_digits)
          THEN [err |-> "none", sample_ids |-> <<sample_id>>]
          ELSE [err |-> "ValueError", sample_ids |-> <<>>]

\* variant: the slice starts one position late
RECURSIVE SliceShifted(_, _, _)
SliceShifted(start, step, n) ==
  IF start + 1 >= n THEN <<>>
  ELSE <<start + 1>> \o SliceShifted(start + step, step, n)

\* shared.py:185 -- the positions sample_ids[rank::size] takes from a list
\* of n entries: from rank on, every size-th, while inside the list
RECURSIVE Slice(_, _, _)
Slice(start, step, n) ==
  IF start >= n THEN <<>>
  ELSE <<start>> \o Slice(start + step, step, n)

Ranks == 0..(wk.size - 1)

InitWorkers ==
  /\ wk \in {[size |-> size, input |-> input, required_digits |-> MaxIdLen,
              pc |-> [r \in 0..(size - 1) |-> "start"],
              sample_ids |-> [r \in 0..(size - 1) |-> <<>>],
              assigned |-> [r \in 0..(size - 1) |-> <<>>],
              i |-> [r \in 0..(size - 1) |-> 1],
              attempted |-> [r \in 0..(size - 1) |-> {}],
              writing |-> [r \in 0..(size - 1) |-> <<>>],
              err |-> [r \in 0..(size - 1) |-> "none"]] :
             size \in 1..MaxWorkers, input \in SampleInputs}
  /\ params = IdleParams /\ run = Idle /\ twin = Idle /\ sd = IdleSd
  /\ tri = IdleTri /\ cl = IdleCl /\ gm = IdleGm /\ cf = IdleCf
  /\ bd = IdleBd /\ fn = IdleFn

\* shared.py:166-185 -- the worker reads the sample input itself, returns
\* early when its rank is past the list, else takes its slice
ReadSampleInput(rank) ==
  /\ wk.pc[rank] = "start"
  /\ LET read == interpret_sample_input(wk.input, wk.required_digits)
         n == Len(read.sample_ids)
     IN wk' = IF read.err # "none"
              THEN [wk EXCEPT !.pc[rank] = "raised", !.err[rank] = read.err]
              ELSE IF rank >= n \/ n = 0
              THEN [wk EXCEPT !.pc[rank] = "done", !.sample_ids[rank] = read.sample_ids]
              ELSE [wk EXCEPT !.pc[rank] = "loop", !.sample_ids[rank] = read.sample_ids,
                      !.assigned[rank] = Slice(rank, wk.size, n)]
  /\ UNCHANGED notDistribution

\* shared.py:186-191 -- the loop enters execute_single_sample_id for its next
\* sample; from here the command writes below samples/<sample_id>
\* (paths.py:235-261)
BeginSample(rank) ==
  /\ wk.pc[rank] = "loop"
  /\ LET position == wk.assigned[rank][wk.i[rank]]
     IN wk' = [wk EXCEPT !.pc[rank] = "exec",
                 !.attempted[rank] = @ \cup {position},
                 !.writing[rank] = wk.sample_ids[rank][position + 1]]
  /\ UNCHANGED notDistribution

\* an exception of execute_single_sample_id leaves the loop and the function
SampleFailure(w, rank) ==
  [w EXCEPT !.writing[rank] = <<>>, !.err[rank] = "Exception",
     !.pc[rank] = "raised"]

\* shared.py:186-193 -- execute_single_sample_id returns, and the loop goes
\* to the next sample or ends, or it raises
EndSample(rank) ==
  /\ wk.pc[rank] = "exec"
  /\ \/ wk' = [wk EXCEPT !.writing[rank] = <<>>, !.i[rank] = @ + 1,
                 !.pc[rank] = IF wk.i[rank] < Len(wk.assigned[rank])
                              THEN "loop" ELSE "done"]
     \/ wk' = SampleFailure(wk, rank)
  /\ UNCHANGED notDistribution

NextWorkers ==
  \E rank \in Ranks : ReadSampleInput(rank) \/ BeginSample(rank) \/ EndSample(rank)

SpecWorkers == InitWorkers /\ [][NextWorkers]_vars

(* ---------------------------- configuration --------------------------- *)
\* Part 6: how main resolves one key of the configuration: argparse with the
\* flags derive_cli_flags_from_config registers, assemble_cli_overrides,
\* build_project_config.  A layer holds a value for the key or leaves it unset;
\* the key is not a boolean (a boolean is a store_true flag).
Unset == "unset"
ConfigValues == {"a", "b"}
Commands == {"mesh", "synthesize-uniform"}

\* declaration.py -- the sections of ProjectConfig
ConfigKeys == {"meta", "behavior", "synthesize_uniform", "triangulate", "mesh"}

\* shared.py:68 -- configname.replace("-", "_")
ConfigName(command) ==
  IF command = "synthesize-uniform" THEN "synthesize_uniform" ELSE command

\* helpers.py:65-83 -- deep_update, for the one key: an update that holds
\* the key replaces the value
deep_update(base, updates) == IF updates = Unset THEN base ELSE updates

InitConfig ==
  /\ cf \in [pc : {"parse"}, command : Commands, section : {"behavior", "command"},
             default : ConfigValues, user : ConfigValues \cup {Unset},
             project : ConfigValues \cup {Unset}, cli : ConfigValues \cup {Unset},
             args_value : {Unset}, overrides : {Unset}, resolved : {Unset}]
  /\ params = IdleParams /\ run = Idle /\ twin = Idle /\ sd = IdleSd
  /\ tri = IdleTri /\ cl = IdleCl /\ gm = IdleGm /\ wk = IdleWk
  /\ bd = IdleBd /\ fn = IdleFn

\* shared.py:93-101, main.py:100 -- the flag is registered with the coded
\* default as its argparse default: the parsed value is the one passed, or
\* the coded default
ParseArgs ==
  /\ cf.pc = "parse"
  /\ cf' = [cf EXCEPT !.pc = "assemble",
              !.args_value = IF cf.cli = Unset THEN cf.default ELSE cf.cli]
  /\ UNCHANGED notConfiguration

\* shared.py:138-139 -- only include if different from defaults
OverrideKept(value, cmdvalue) == value # cmdvalue

\* shared.py:106-144 -- assemble_cli_overrides: the sections looked at are
\* "behavior" and args.command as typed; a section that is no key of the
\* defaults is passed over
AssembleCliOverrides ==
  /\ cf.pc = "assemble"
  /\ LET configkey == IF cf.section = "behavior" THEN "behavior"
                      ELSE ConfigName(cf.command)
         looked_at == configkey \in ({"behavior", cf.command} \cap ConfigKeys)
     IN cf' = [cf EXCEPT !.pc = "build",
                 !.overrides = IF looked_at /\ OverrideKept(cf.args_value, cf.default)
                               THEN cf.args_value ELSE Unset]
  /\ UNCHANGED notConfiguration

\* helpers.py:86-116 -- build_project_config: defaults, then the user file,
\* then the project file, then the overrides
BuildProjectConfig ==
  /\ cf.pc = "build"
  /\ cf' = [cf EXCEPT !.pc = "resolved",
              !.resolved = deep_update(deep_update(deep_update(cf.default, cf.user),
                                                   cf.project), cf.overrides)]
  /\ UNCHANGED notConfiguration

NextConfig == ParseArgs \/ AssembleCliOverrides \/ BuildProjectConfig

SpecConfig == InitConfig /\ [][NextConfig]_vars

(* ---------------------------- airspace model -------------------------- *)
\* Part 7: build_gmsh_model of gmeshing.py from the boolean cut on, followed
\* by the surface walk of assign_physical_groups.  The cut leaves volumes
\* 1..n in the scene, each with a mass and two boundary surfaces of its own.
\* Lengths are in units of 1e-7 of the target height, so the relative height
\* tolerance 1e-6 is 10 units; a height of 10 units above the target measures
\* below the tolerance in float64, one of 10 units below it does not.
MaxVolumes == 2
Masses == {1, 2}
HeightUnit == 10000000
HeightTolerance == 10
MaxIterations == 5
Heights ==
  {HeightUnit, HeightUnit + 9, HeightUnit + 10, HeightUnit - 10,
   2 * HeightUnit, HeightUnit \div 2}
\* what the bounding box of the kernel measures after a transform, relative
\* to the exact image
Drifts == {0, 10, 0 - 10, 0 - 500}

\* the surfaces on the boundary of volume tag
BoundaryOf(tag) == IF tag = NoTag THEN {} ELSE {<<tag, 1>>, <<tag, 2>>}

InitBuild ==
  /\ bd \in {[pc |-> "identify", n |-> n, mass |-> mass,
              scene |-> [volumes |-> 1..n,
                         surfaces |-> UNION {BoundaryOf(t) : t \in 1..n}],
              largest_volume |-> 0, largest_volume_tag |-> NoTag, airspace |-> NoTag,
              bbox |-> [height |-> h, bottom |-> z, center |-> c],
              exact |-> TRUE, passes |-> 0, measured |-> 0, transforms |-> 0,
              count |-> 0, iterations |-> 0, classified |-> {}, err |-> "none"] :
             n \in 0..MaxVolumes, mass \in [1..MaxVolumes -> Masses],
             h \in Heights, z \in {0, 0 - 3}, c \in {0, 4}}
  /\ params = IdleParams /\ run = Idle /\ twin = Idle /\ sd = IdleSd
  /\ tri = IdleTri /\ cl = IdleCl /\ gm = IdleGm /\ wk = IdleWk
  /\ cf = IdleCf /\ fn = IdleFn

\* gmeshing.py:138-142 -- the loop over the volumes in tag order:
\* the first volume whose mass is above every mass before it
RECURSIVE IdentifyLargest(_, _, _, _, _)
IdentifyLargest(tag, n, mass, largest_volume, largest_volume_tag) ==
  IF tag > n THEN [largest_volume |-> largest_volume,
                   largest_volume_tag |-> largest_volume_tag]
  ELSE IF mass[tag] > largest_volume
  THEN IdentifyLargest(tag + 1, n, mass, mass[tag], tag)
  ELSE IdentifyLargest(tag + 1, n, mass, largest_volume, largest_volume_tag)

\* gmeshing.py:133-142
Identify ==
  /\ bd.pc = "identify"
  /\ LET found == IdentifyLargest(1, bd.n, bd.mass, 0, NoTag)
     IN bd' = [bd EXCEPT !.pc = "remove",
                 !.largest_volume = found.largest_volume,
                 !.largest_volume_tag = found.largest_volume_tag]
  /\ UNCHANGED notBuilding

\* variant: only the volumes listed before the largest are removed
DiscardedBefore(tag, largest_volume_tag) == tag < largest_volume_tag

\* gmeshing.py:145 -- the volumes the second loop removes
Discarded(tag, largest_volume_tag) == tag # largest_volume_tag

\* gmeshing.py:144-151 -- kernel.remove of every other volume, without the
\* recursive flag: the volume goes, the surfaces on its boundary stay in the
\* scene; the handle is made from the tag found
RemoveOthers ==
  /\ bd.pc = "remove"
  /\ bd' = [bd EXCEPT !.pc = "normalize",
              !.scene.volumes = {t \in @ : ~Discarded(t, bd.largest_volume_tag)},
              !.airspace = bd.largest_volume_tag]
  /\ UNCHANGED notBuilding

\* gmeshing.py:182-186, 52 -- abs((size[2] - target_size) / target_size) < tolerance
HeightErrorBelowTolerance(height) ==
  RelativeErrorWithin(height, HeightUnit, HeightTolerance, HeightUnit, FALSE)

\* variant: one more pass of the loop
LoopContinuesInclusive(passes) == passes <= MaxIterations

\* gmeshing.py:50 -- for _ in range(max_iterations)
LoopContinues(passes) == passes < MaxIterations

\* gmeshing.py:49-58 -- one pass of the loop of _iterative_affine_transformation:
\* bounding box, error, break or transform.  The transform scales by
\* target / height and moves the bottom center of the box to the origin; the
\* box the kernel measures afterwards can be off the exact image.  Without a
\* volume behind the handle the bounding-box call raises.
NormalizePass ==
  /\ bd.pc = "normalize"
  /\ LoopContinues(bd.passes)
  /\ IF bd.airspace = NoTag
     THEN bd' = [bd EXCEPT !.pc = "raised", !.err = "Exception"]
     ELSE IF HeightErrorBelowTolerance(bd.bbox.height)
     THEN bd' = [bd EXCEPT !.pc = "returned", !.measured = @ + 1,
                   !.iterations = bd.count]
     ELSE \E drift \in Drifts :
            bd' = [bd EXCEPT !.measured = @ + 1, !.passes = @ + 1,
                     !.transforms = @ + 1, !.count = @ + 1,
                     !.exact = @ /\ drift = 0,
                     !.bbox = [height |-> HeightUnit + drift, bottom |-> 0,
                               center |-> 0]]
  /\ UNCHANGED notBuilding

\* gmeshing.py:59, 188-197 -- the loop has used its passes: return
NormalizeExhausted ==
  /\ bd.pc = "normalize"
  /\ ~LoopContinues(bd.passes)
  /\ bd' = [bd EXCEPT !.pc = "returned", !.iterations = bd.count]
  /\ UNCHANGED notBuilding

\* gmeshing.py:241-261 -- assign_physical_groups walks getEntities(dim=2),
\* every surface of the scene, and puts each into one of its four roles
ClassifyScene ==
  /\ bd.pc = "returned"
  /\ bd' = [bd EXCEPT !.pc = "classified", !.classified = bd.scene.surfaces]
  /\ UNCHANGED notBuilding

NextBuild ==
  \/ Identify \/ RemoveOthers \/ NormalizePass \/ NormalizeExhausted
  \/ ClassifyScene

SpecBuild == InitBuild /\ [][NextBuild]_vars

(* ----------------------------- sizing field --------------------------- *)
\* Part 8: configure_meshfield of gmeshing.py.  fn.fields is the field table
\* of the kernel, tag -> field; sizes and distances are integers.  A field's
\* value is kept as its numerator over the common denominator FieldScale.
MinimumResolutions == {1, 2, 3}
FieldFactors == {1, 2, 3}
FieldDistances == 0..4

InitField ==
  /\ fn \in [pc : {"mesophyll"}, minimum_resolution : MinimumResolutions,
             maximum_resolution : {4, 6}, minimum_distance : {0, 1},
             maximum_distance : {2, 3},
             inlet_base_resolution_factor : FieldFactors,
             fields : {<<>>}, background : {NoTag}]
  /\ params = IdleParams /\ run = Idle /\ twin = Idle /\ sd = IdleSd
  /\ tri = IdleTri /\ cl = IdleCl /\ gm = IdleGm /\ wk = IdleWk
  /\ cf = IdleCf /\ bd = IdleBd

\* gmsh.model.mesh.field.add with the options set on it: the next free tag
AddField(fields, field) == Append(fields, field)

\* a Distance field on the faces and the Threshold field reading it
DistanceAndThreshold(f, faces, lc_min) ==
  LET with_distance == AddField(f.fields, [kind |-> "Distance", FacesList |-> faces])
  IN AddField(with_distance,
              [kind |-> "Threshold", IField |-> Len(with_distance),
               LcMin |-> lc_min, LcMax |-> f.maximum_resolution,
               DistMin |-> f.minimum_distance, DistMax |-> f.maximum_distance])

\* gmeshing.py:301-311
MesophyllFields ==
  /\ fn.pc = "mesophyll"
  /\ fn' = [fn EXCEPT !.pc = "inlet",
              !.fields = DistanceAndThreshold(fn, "mesophyll_surface_tags",
                                              fn.minimum_resolution)]
  /\ UNCHANGED notCalling

\* gmeshing.py:313-324
InletFields ==
  /\ fn.pc = "inlet"
  /\ fn' = [fn EXCEPT !.pc = "minimum",
              !.fields = DistanceAndThreshold(fn, "bottom_and_top_area_tag",
                           fn.minimum_resolution * fn.inlet_base_resolution_factor)]
  /\ UNCHANGED notCalling

\* variant: the combining field takes the larger value
CombiningFieldMax == "Max"

\* gmeshing.py:326 -- the kind of the combining field
CombiningField == "Min"

\* gmeshing.py:326-331 -- the combining field over the two thresholds, set
\* as background mesh
BackgroundField ==
  /\ fn.pc = "minimum"
  /\ LET thresholds == {t \in 1..Len(fn.fields) : fn.fields[t].kind = "Threshold"}
         listed == <<SetMin(thresholds), SetMax(thresholds)>>
     IN fn' = [fn EXCEPT !.pc = "done",
                 !.fields = AddField(@, [kind |-> CombiningField, FieldsList |-> listed]),
                 !.background = Len(fn.fields) + 1]
  /\ UNCHANGED notCalling

NextField == MesophyllFields \/ InletFields \/ BackgroundField

SpecField == InitField /\ [][NextField]_vars

\* the common denominator of the threshold values
FieldScale(f) ==
  IF f.maximum_distance > f.minimum_distance
  THEN f.maximum_distance - f.minimum_distance ELSE 1

\* gmsh Threshold: LcMin up to DistMin, LcMax from DistMax on, linear between
ThresholdValue(f, field, d) ==
  IF d <= field.DistMin THEN field.LcMin * FieldScale(f)
  ELSE IF d >= field.DistMax THEN field.LcMax * FieldScale(f)
  ELSE field.LcMin * FieldScale(f) + (field.LcMax - field.LcMin) * (d - field.DistMin)

\* the value of field tag at a point at distance dist[faces] from each face
\* list: a Threshold reads its Distance field, Min and Max combine their list
RECURSIVE FieldValue(_, _, _)
FieldValue(f, tag, dist) ==
  LET field == f.fields[tag]
  IN CASE field.kind = "Distance" -> dist[field.FacesList]
       [] field.kind = "Threshold" ->
            ThresholdValue(f, field, FieldValue(f, field.IField, dist))
       [] field.kind = "Min" ->
            Min2(FieldValue(f, field.FieldsList[1], dist),
                 FieldValue(f, field.FieldsList[2], dist))
       [] OTHER ->
            Max2(FieldValue(f, field.FieldsList[1], dist),
                 FieldValue(f, field.FieldsList[2], dist))

\* the points of the model, by their distances to the two face lists
FieldPoints ==
  [{"mesophyll_surface_tags", "bottom_and_top_area_tag"} -> FieldDistances]

(* ------------------------- nested dictionaries ------------------------ *)
\* Part 9: deep_update of config/helpers.py on nested dictionaries.  A value
\* is a leaf [leaf |-> v] or a dictionary [items |-> f], f a function from
\* its keys to values; the dictionaries of the model nest to depth two.
DictKeys == {"x", "nested"}
Leaves == {[leaf |-> v] : v \in {"1", "2"}}
DictsOver(values) ==
  {[items |-> f] : f \in UNION {[K -> values] : K \in SUBSET DictKeys}}
InnerDicts == DictsOver(Leaves)
Dicts == DictsOver(Leaves \cup InnerDicts)

IsDict(value) == "items" \in DOMAIN value

\* variant: a dictionary in updates replaces the one in base
MergesNestedNever(result, key, value) == FALSE

\* helpers.py:78 -- key in result and both values are dictionaries
MergesNested(result, key, value) ==
  key \in DOMAIN result.items /\ IsDict(result.items[key]) /\ IsDict(value)

\* helpers.py:65-83 -- deep_update on dictionaries
RECURSIVE deep_update_nested(_, _)
deep_update_nested(base, updates) ==
  [items |->
     [key \in DOMAIN base.items \cup DOMAIN updates.items |->
        IF key \notin DOMAIN updates.items THEN base.items[key]
        ELSE IF MergesNested(base, key, updates.items[key])
        THEN deep_update_nested(base.items[key], updates.items[key])
        ELSE updates.items[key]]]

InitMerge ==
  /\ fn \in [pc : {"call"}, base : Dicts, updates : Dicts, result : {[items |-> <<>>]}]
  /\ params = IdleParams /\ run = Idle /\ twin = Idle /\ sd = IdleSd
  /\ tri = IdleTri /\ cl = IdleCl /\ gm = IdleGm /\ wk = IdleWk
  /\ cf = IdleCf /\ bd = IdleBd

CallDeepUpdate ==
  /\ fn.pc = "call"
  /\ fn' = [fn EXCEPT !.pc = "returned",
              !.result = deep_update_nested(fn.base, fn.updates)]
  /\ UNCHANGED notCalling

NextMerge == CallDeepUpdate

SpecMerge == InitMerge /\ [][NextMerge]_vars

(* ------------------------------ claims --------------------------------- *)
SafetyRadius(p) == p.plug_aspect - p.max_radius - p.min_separation

\* C1: two invocations of generate_voxels_from_sample_id with the same
\* base_seed, sample_id and parameters, the sample seed being valid, accept
\* the same sequence of spheres and return identical voxel grids: once both
\* are through, both have returned, with equal cell arrays and equal grids.
C1_Deterministic ==
  (run.pc \in Final /\ twin.pc \in Final
     /\ IntParses(params.sample_id)
     /\ SeedAccepted(get_sample_seed(params.base_seed, params.sample_id))) =>
    /\ run.pc = "done" /\ twin.pc = "done"
    /\ run.centers = twin.centers
    /\ run.radii = twin.radii
    /\ run.voxels = twin.voxels

C6_GridReturned ==
  (IntParses(params.sample_id)
     /\ SeedAccepted(get_sample_seed(params.base_seed, params.sample_id))
     /\ SafetyRadius(params) > 0) =>
    /\ run.pc # "raised"
    /\ run.voxels \subseteq GridIndices(GridShape(params)[1], GridShape(params)[3])

\* C7: for a fixed base_seed, two distinct sample ids that both pass
\* validate_sample_id for the same width get different seeds.
C7_NoSeedCollision ==
  (sd.pc = "seeded" /\ sd.ids[1] # sd.ids[2]) => sd.seeds[1] # sd.seeds[2]

\* the same for ids written in the digits "0" .. "9" only
C7_NoCollisionAmongDigitStrings ==
  (sd.pc = "seeded" /\ sd.ids[1] # sd.ids[2]
     /\ \A n \in 1..2 : \A k \in 1..Len(sd.ids[n]) : sd.ids[n][k] \in 48..57)
    => sd.seeds[1] # sd.seeds[2]

\* a shrinkage beyond the tolerance, in area or in volume
ShrinkageExceeds(t) ==
  \/ 100 * Abs(t.pre_area - t.post_area) > t.shrinkage_tolerance * t.pre_area
  \/ 100 * Abs(t.pre_volume - t.post_volume) > t.shrinkage_tolerance * t.pre_volume

AllChecksPass(t) == t.flags[1] /\ t.flags[2] /\ t.flags[3]

\* C8: when triangulate_voxels returns, status is "success" exactly when the
\* final mesh is edge-manifold, vertex-manifold and watertight and "failure"
\* otherwise, and shrinkage_acceptable is false exactly when the area or the
\* volume shrinkage exceeds the tolerance; shrinkage has no part in status.
C8_StatusIndependentOfShrinkage ==
  tri.returned =>
    /\ tri.metadata.status = (IF AllChecksPass(tri) THEN "success" ELSE "failure")
    /\ (tri.metadata.shrinkage_acceptable = FALSE) <=> ShrinkageExceeds(tri)

\* a mesh passing all three checks with a shrinkage beyond the tolerance is
\* returned
C8_Witness ==
  /\ tri.returned
  /\ AllChecksPass(tri)
  /\ ShrinkageExceeds(tri)
  /\ tri.metadata.status = "success"

\* C9: once the command is through with a sample whose extraction returned,
\* the surface mesh file is written, the CAD tool was invoked exactly when
\* the status is success, and for status failure the manifest records
\* brep_exported = false and the command has not raised.
C9_ConversionGating ==
  (tri.returned /\ tri.pc \in {"done", "raised"}) =>
    /\ tri.stl_written
    /\ tri.tool_invoked <=> (tri.metadata.status = "success")
    /\ (tri.metadata.status = "failure") =>
         /\ tri.pc = "done"
         /\ "meta" \in DOMAIN tri.manifest
         /\ tri.manifest.meta.brep_exported = FALSE

\* the part of C9 the command keeps: the file of a mesh that has triangles is
\* written whatever the status
C9_ArtifactWritten ==
  (tri.returned /\ tri.pc \in {"done", "raised"} /\ tri.faces > 0) => tri.stl_written

\* C10: for a grid whose voxels are all 0, triangulate_voxels does not raise:
\* it returns, with metadata reporting zero vertices and zero faces.
C10_EmptyGridHandled ==
  (tri.voxels = {} /\ tri.input_present) =>
    /\ tri.err \notin {"ValueError", "ZeroDivisionError", "RuntimeError"}
    /\ tri.returned =>
         (tri.metadata.num_vertices = 0 /\ tri.metadata.num_faces = 0)

\* the surfaces of the scene with a given role in the returned dictionary
RoleTags(c, role) ==
  IF role = "mesophyll"
  THEN {c.tags.mesophyll_surface_tags[j] : j \in 1..Len(c.tags.mesophyll_surface_tags)}
  ELSE IF role = "top" THEN {c.tags.top_area_tag} \ {NoTag}
  ELSE IF role = "bottom" THEN {c.tags.bottom_area_tag} \ {NoTag}
  ELSE {c.tags.curved_area_tag} \ {NoTag}

\* C11: whenever assign_physical_groups returns, exactly one surface is top,
\* exactly one bottom, exactly one curved (in the physical groups and in the
\* returned dictionary), every other surface is in the mesophyll list, and no
\* surface has two roles.
C11_ExactlyOneOfEach ==
  cl.pc = "returned" =>
    /\ \A g \in {"top_surface", "bottom_surface", "curved_surface"} :
         Cardinality(cl.groups[g]) = 1
    /\ cl.groups.top_surface = RoleTags(cl, "top")
    /\ cl.groups.bottom_surface = RoleTags(cl, "bottom")
    /\ cl.groups.curved_surface = RoleTags(cl, "curved")
    /\ \A t \in 1..Len(cl.surfaces) :
         Cardinality({role \in {"top", "bottom", "curved", "mesophyll"} :
                        t \in RoleTags(cl, role)}) = 1

\* the function has returned on a scene with both caps, the lateral surface
\* and a surface of the tissue
C11_Witness ==
  /\ cl.pc = "returned"
  /\ Len(cl.surfaces) = 4
  /\ Len(cl.tags.mesophyll_surface_tags) = 1
  /\ cl.tags.curved_area_tag # NoTag

\* surfaces whose area is within tolerance of the curved target
AreaMatching(c) ==
  {t \in 1..Len(c.surfaces) :
     AreaWithinTolerance(c.surfaces[t].area, c.curved_area_target, c.tolerance)}

IsCap(c, t) == c.surfaces[t].z \in {"one", "zero"}

\* C12 as stated: the function returns a classification only if exactly one
\* surface of the scene has its area within tolerance of the curved target
\* and a top and a bottom surface were found.
C12_AbortsOnAmbiguity ==
  cl.pc = "returned" =>
    /\ Cardinality(AreaMatching(cl)) = 1
    /\ \E t \in 1..Len(cl.surfaces) : cl.surfaces[t].z = "one"
    /\ \E t \in 1..Len(cl.surfaces) : cl.surfaces[t].z = "zero"

\* C12 amended: the function aborts whenever the number of surfaces that are
\* neither top nor bottom and have their area within tolerance of the curved
\* target is zero or at least two, or no top or no bottom surface is found.
C12_AbortsOnAmbiguityOffCaps ==
  (cl.pc \in {"returned", "raised", "finish"}
     /\ \/ Cardinality({t \in AreaMatching(cl) : ~IsCap(cl, t)}) # 1
        \/ ~\E t \in 1..Len(cl.surfaces) : cl.surfaces[t].z = "one"
        \/ ~\E t \in 1..Len(cl.surfaces) : cl.surfaces[t].z = "zero")
    => cl.pc # "returned" /\ cl.tags = <<>>

\* two surfaces off the caps match the curved area, both caps are there, and
\* the function has aborted: the second match is refused by the kernel
C12_Witness ==
  /\ cl.pc = "raised" /\ cl.err = "Exception"
  /\ Cardinality({t \in AreaMatching(cl) : ~IsCap(cl, t)}) >= 2
  /\ \E t \in 1..Len(cl.surfaces) : cl.surfaces[t].z = "one"
  /\ \E t \in 1..Len(cl.surfaces) : cl.surfaces[t].z = "zero"

\* C13: if a kernel call of run_gmsh_session before the write raises, the
\* error reaches the caller (the worker's loop ends with it), the volumetric
\* mesh file of that sample is not written and no manifest is written for it.
C13_NoPartialMesh ==
  (gm.pc # "idle" /\ gm.raised_at # "none") =>
    /\ gm.pc = "raised"
    /\ gm.s \notin gm.written
    /\ gm.s \notin gm.manifests

\* the 3-D generation has raised: the stage directory exists, no mesh file
C13_Witness ==
  /\ gm.pc = "raised" /\ gm.raised_at = "generate"
  /\ gm.s \in gm.dirs /\ gm.s \in gm.kernel_calls
  /\ gm.s \notin gm.written

\* C17: while a sample is in its kernel session the kernel holds nothing of
\* another sample, and when the worker is through (normally or by an error)
\* the kernel has been torn down.
C17_SessionLifecycle ==
  /\ (gm.pc \in {"import", "cut", "remove", "normalize", "classify", "fields",
                 "generate", "write"})
       => gm.kernel.models \subseteq {gm.s}
  /\ (gm.pc \in {"done", "raised"}) => ~gm.kernel.initialized

\* C18: when the input file of the sample is missing (or is not a file), the
\* triangulate and the mesh command raise before any triangulation or kernel
\* call and before any output directory or file of the stage exists.
C18_InputErrorsFailFast ==
  /\ (tri.pc # "idle" /\ ~tri.input_present) =>
       /\ tri.pc \in {"require", "raised"}
       /\ ~tri.returned /\ ~tri.stl_written /\ tri.faces = 0
       /\ tri.pc = "raised" => tri.err = "FileNotFoundError"
  /\ (gm.pc # "idle" /\ gm.input[gm.s] # "file") =>
       /\ gm.pc \in {"require", "raised"}
       /\ gm.s \notin gm.dirs
       /\ gm.s \notin gm.kernel_calls
       /\ gm.s \notin gm.written
       /\ gm.pc = "raised" => gm.err \in {"FileNotFoundError", "IsADirectoryError"}

\* the second sample of a worker has no input: the command has raised, with
\* the first sample meshed and nothing made for the second
C18_Witness ==
  /\ gm.pc = "raised" /\ gm.err = "FileNotFoundError"
  /\ gm.s = 2 /\ gm.input[2] = "absent"
  /\ gm.written = {1} /\ gm.dirs = {1}

\* positions of the list as the worker of this rank has read it
Positions(rank) == 0..(Len(wk.sample_ids[rank]) - 1)

\* C14: an error in one sample does not keep the worker from its remaining
\* samples: a worker that is through has attempted every sample assigned to it.
C14_SampleIsolation ==
  \A rank \in Ranks :
      (wk.pc[rank] \in {"done", "raised"} /\ wk.assigned[rank] # <<>>) =>
        wk.attempted[rank] = {wk.assigned[rank][k] : k \in 1..Len(wk.assigned[rank])}

\* C15: no two workers are at the same time inside a sample with the same
\* per-sample directory.
C15_DisjointOutputs ==
  \A r1, r2 \in Ranks :
      (r1 # r2 /\ wk.pc[r1] = "exec" /\ wk.pc[r2] = "exec") =>
        wk.writing[r1] # wk.writing[r2]

\* C16: a worker that has taken its slice holds exactly the positions
\* congruent to its rank modulo the number of workers, so every position is
\* held by exactly one rank; a worker whose rank is past the list holds and
\* attempts nothing; a worker attempts only positions it holds.
C16_RoundRobinPartition ==
  \A rank \in Ranks :
      wk.pc[rank] \in {"loop", "exec", "done"} =>
        /\ \A k \in Positions(rank) :
             (\E j \in 1..Len(wk.assigned[rank]) : wk.assigned[rank][j] = k)
               <=> (k % wk.size = rank)
        /\ \A j \in 1..Len(wk.assigned[rank]) :
             /\ wk.assigned[rank][j] \in Positions(rank)
             /\ wk.assigned[rank][j] = rank + (j - 1) * wk.size
        /\ rank >= Len(wk.sample_ids[rank]) =>
             wk.pc[rank] = "done" /\ wk.attempted[rank] = {}
        /\ \A k \in wk.attempted[rank] : k % wk.size = rank

\* two workers, three samples: rank 0 has done positions 0 and 2, rank 1
\* position 1
C16_Witness ==
  /\ wk.size = 2
  /\ wk.pc[0] = "done" /\ wk.pc[1] = "done"
  /\ Len(wk.sample_ids[0]) = 3
  /\ wk.attempted[0] = {0, 2} /\ wk.attempted[1] = {1}

\* C19: the resolved value of a key is the value of the highest layer that
\* specifies it: command line, then project file, then user file, then the
\* coded default.
C19_Precedence ==
  cf.pc = "resolved" =>
    cf.resolved = IF cf.cli # Unset THEN cf.cli
                  ELSE IF cf.project # Unset THEN cf.project
                  ELSE IF cf.user # Unset THEN cf.user
                  ELSE cf.default

\* the calls of an invocation that ran decimation, and of one that did not
CallsWithDecimation ==
  <<"cubes", "clean", "measure", "smooth", "clean", "decimate", "clean", "measure">>
CallsWithoutDecimation ==
  <<"cubes", "clean", "measure", "smooth", "clean", "measure">>

\* C21: when triangulate_voxels returns, its calls were: extraction, cleaning,
\* baseline measurement, smoothing, cleaning, (decimation, cleaning,) final
\* measurement, in this order; and the shrinkage ratios of the metadata are
\* computed from the baseline and the final measurement.
C21_StageOrder ==
  (tri.pc # "idle" /\ tri.returned) =>
    /\ tri.calls \in {CallsWithDecimation, CallsWithoutDecimation}
    /\ tri.metadata.pre_area = tri.pre_area
    /\ tri.metadata.post_area = tri.post_area
    /\ tri.metadata.area_shrinkage = <<Abs(tri.pre_area - tri.post_area), tri.pre_area>>
    /\ tri.metadata.volume_shrinkage =
         <<Abs(tri.pre_volume - tri.post_volume), tri.pre_volume>>

\* an invocation that decimated has returned, with areas that differ
C21_Witness ==
  /\ tri.returned /\ tri.calls = CallsWithDecimation
  /\ tri.pre_area # tri.post_area

\* C22: the decimation step simplifies only when the triangle count is
\* strictly above decimation_target; at or below the target it changes neither
\* the mesh nor the position by an error; the count after the step is never
\* above the count before.
C22_DecimationGuard ==
  [][tri.pc = "decimate" =>
       /\ tri'.faces <= tri.faces
       /\ tri'.pc # "raised"
       /\ (tri'.calls # tri.calls) <=> (tri.faces > tri.decimation_target)
       /\ tri.faces <= tri.decimation_target =>
            tri'.faces = tri.faces /\ tri'.verts = tri.verts]_vars

\* the step was passed with the count exactly at the target: no decimation
C22_Witness ==
  /\ tri.pc = "measure_post"
  /\ tri.faces = tri.decimation_target
  /\ tri.calls = <<"cubes", "clean", "measure", "smooth", "clean">>

\* the retained volume as the claim describes it
RetainedLargest ==
  /\ Cardinality(bd.scene.volumes) = 1
  /\ bd.airspace \in bd.scene.volumes
  /\ \A t \in 1..bd.n : bd.mass[t] <= bd.mass[bd.airspace]
  /\ \A t \in 1..bd.n : t # bd.airspace => t \notin bd.scene.volumes

\* C23: whenever build_gmsh_model returns an airspace handle, the scene
\* holds exactly one volume, of maximum mass among the volumes of the cut,
\* every other volume has been removed, and the handle is its tag; with the
\* one or more volumes of a cut this holds from the end of the removal loop
\* on.
C23_LargestRetained ==
  /\ bd.pc \in {"returned", "classified"} => RetainedLargest
  /\ (bd.pc \in {"normalize", "raised"} /\ bd.n >= 1) => RetainedLargest

\* two volumes, the second the heavier: it is the one kept and the one whose
\* tag is returned
C23_Witness ==
  /\ bd.pc = "returned" /\ bd.n = 2
  /\ bd.mass[2] > bd.mass[1]
  /\ bd.scene.volumes = {2} /\ bd.airspace = 2

\* C24: the loop measures at most 5 bounding boxes and applies at most 5
\* transforms, one measurement before each; a pass that measures an error
\* below the tolerance applies nothing and ends the loop; the value returned
\* is the number of transforms applied.
C24_BoundedNormalization ==
  /\ [](bd.pc # "idle" =>
          /\ bd.transforms <= 5 /\ bd.passes <= 5
          /\ bd.measured >= bd.transforms
          /\ bd.pc \in {"returned", "classified"} => bd.iterations = bd.transforms)
  /\ [][(bd.pc = "normalize" /\ bd.airspace # NoTag
           /\ Abs(bd.bbox.height - HeightUnit) < HeightTolerance) =>
          /\ bd'.pc = "returned"
          /\ bd'.transforms = bd.transforms
          /\ bd'.bbox = bd.bbox]_vars
  /\ [][bd.pc \in {"returned", "classified"} => bd'.transforms = bd.transforms]_vars

\* the loop has used all five passes and returned 5
C24_Witness ==
  /\ bd.pc = "returned" /\ bd.iterations = 5 /\ bd.measured = 5
  /\ ~HeightErrorBelowTolerance(bd.bbox.height)

\* C28: every surface assign_physical_groups puts into a role lies on the
\* boundary of the retained airspace volume.
C28_ClassifiedBoundAirspace ==
  bd.pc = "classified" => bd.classified \subseteq BoundaryOf(bd.airspace)

\* C29: when build_gmsh_model returns and every bounding box after a
\* transform was the exact image, the box has height within tolerance of the
\* target, its bottom at z = 0 and its center on the axis.
C29_CanonicalFrame ==
  (bd.pc = "returned" /\ bd.exact) =>
    /\ Abs(bd.bbox.height - HeightUnit) < HeightTolerance
    /\ bd.bbox.bottom = 0
    /\ bd.bbox.center = 0

\* C25: the background mesh is a field over exactly two threshold fields, one
\* reading the distance to the mesophyll surfaces with lower size
\* minimum_resolution, one reading the distance to bottom and top with lower
\* size minimum_resolution * inlet_base_resolution_factor, and at every point
\* its size is the smaller of the two threshold values.
C25_BackgroundIsMinimum ==
  (fn.pc = "done") =>
    LET background == fn.fields[fn.background]
        first == fn.fields[background.FieldsList[1]]
        second == fn.fields[background.FieldsList[2]]
    IN /\ Len(background.FieldsList) = 2
       /\ first.kind = "Threshold" /\ second.kind = "Threshold"
       /\ fn.fields[first.IField].FacesList = "mesophyll_surface_tags"
       /\ first.LcMin = fn.minimum_resolution
       /\ fn.fields[second.IField].FacesList = "bottom_and_top_area_tag"
       /\ second.LcMin = fn.minimum_resolution * fn.inlet_base_resolution_factor
       /\ \A dist \in FieldPoints :
            /\ FieldValue(fn, fn.background, dist)
                 <= FieldValue(fn, background.FieldsList[1], dist)
            /\ FieldValue(fn, fn.background, dist)
                 <= FieldValue(fn, background.FieldsList[2], dist)
            /\ FieldValue(fn, fn.background, dist)
                 \in {FieldValue(fn, background.FieldsList[1], dist),
                      FieldValue(fn, background.FieldsList[2], dist)}

\* the fields are set and at some point the inlet threshold is the smaller,
\* at another the mesophyll threshold
C25_Witness ==
  /\ fn.pc = "done"
  /\ \E dist \in FieldPoints :
       FieldValue(fn, 2, dist) < FieldValue(fn, 4, dist)
  /\ \E dist \in FieldPoints :
       FieldValue(fn, 4, dist) < FieldValue(fn, 2, dist)

\* C26, for one level: result is the merge of base and updates as the claim
\* words it, given what the merge of two nested dictionaries is
MergedAs(result, base, updates, nested(_, _, _)) ==
  /\ DOMAIN result.items = DOMAIN base.items \cup DOMAIN updates.items
  /\ \A key \in DOMAIN result.items :
       IF key \in DOMAIN base.items /\ key \in DOMAIN updates.items
            /\ IsDict(base.items[key]) /\ IsDict(updates.items[key])
       THEN nested(result.items[key], base.items[key], updates.items[key])
       ELSE IF key \in DOMAIN updates.items
       THEN result.items[key] = updates.items[key]
       ELSE result.items[key] = base.items[key]

\* the merge of two innermost dictionaries: nothing to recurse into
MergedLeaves(result, base, updates) ==
  /\ DOMAIN result.items = DOMAIN base.items \cup DOMAIN updates.items
  /\ \A key \in DOMAIN result.items :
       result.items[key] = IF key \in DOMAIN updates.items
                           THEN updates.items[key] ELSE base.items[key]

\* C26: the result of deep_update holds every key of both dictionaries; a
\* key whose two values are dictionaries maps to their merge; any other key
\* of updates maps to the value of updates; a key only in base keeps its value.
C26_DeepUpdateMerge ==
  fn.pc = "returned" => MergedAs(fn.result, fn.base, fn.updates, MergedLeaves)

\* the case of the test: nested dictionaries merged key by key, one key only
\* in base, one replaced
C26_Witness ==
  /\ fn.pc = "returned"
  /\ fn.base = [items |-> [x |-> [leaf |-> "1"],
                           nested |-> [items |-> [x |-> [leaf |-> "1"],
                                                  nested |-> [leaf |-> "1"]]]]]
  /\ fn.updates = [items |-> [nested |-> [items |-> [nested |-> [leaf |-> "2"]]]]]
  /\ fn.result = [items |-> [x |-> [leaf |-> "1"],
                             nested |-> [items |-> [x |-> [leaf |-> "1"],
                                                    nested |-> [leaf |-> "2"]]]]]

\* C27: the overrides assemble_cli_overrides returns hold a key of the
\* behavior section or of the invoked command's section exactly when its
\* parsed value differs from the coded default, with the parsed value; they
\* are empty when no flag is given.
C27_OverridesMinimal ==
  cf.pc \in {"build", "resolved"} =>
    /\ cf.overrides = IF cf.args_value # cf.default THEN cf.args_value ELSE Unset
    /\ cf.cli = Unset => cf.overrides = Unset

====
